---- MODULE Spec2Model ----
(***************************************************************************)
(* Rossler flow (src/Rossler.py): the velocity field, its stability        *)
(* matrix, the augmented (state + tangent matrix) velocity field, and the  *)
(* two integrations Flow and Jacobian built on scipy's odeint.              *)
(*                                                                         *)
(* Numbers.  A real number r of the program is the integer r * Scale when  *)
(* it is a coordinate or a matrix entry (tenths), and r * Scale * Scale    *)
(* when it is a velocity component (hundredths): the products of the       *)
(* source are then exact integer products.  A time t is the integer        *)
(* t * TimeDen.  Arithmetic is exact; floating-point rounding is not       *)
(* modelled.                                                               *)
(*                                                                         *)
(* Results.  A call ends with a value or with a Python exception; both are *)
(* the record [kind, val], kind = "ok" or the exception's class name.      *)
(***************************************************************************)
EXTENDS Integers, Sequences, FiniteSets

VARIABLES
    a, b, c,        \* the module globals of lines 7-9, scaled by Scale
    strictIndex,    \* the numpy build: TRUE when linspace refuses a float num
    pc,             \* the caller: "idle", or "returned" from a call
    call,           \* the call the caller made last
    buf,            \* the caller's input array after that call
    outcome,        \* what the call returned or raised
    integ,          \* what the call handed to odeint, and what odeint did
    kept            \* an earlier call and its outcome, kept by the caller

vars == <<a, b, c, strictIndex, pc, call, buf, outcome, integ, kept>>

-----------------------------------------------------------------------------
(* Representation *)

Scale == 10
TimeDen == 200

(* Bounds of the inputs *)
MaxVal == 1
MaxT == 6
MaxIntT == 1
MaxDt == 1
MaxJunk == 1
MaxMag == 1000
MaxH == 2

(* A call returns an array (ndim 1), a 3x3 array (ndim 2), or raises. *)
Ok(v) == [kind |-> "ok", ndim |-> 1, val |-> v]
OkMatrix(M) == [kind |-> "ok", ndim |-> 2, val |-> M]
Err(k) == [kind |-> k, ndim |-> 0, val |-> <<>>]

Abs(n) == IF n >= 0 THEN n ELSE -n

(* int(n / d) of Python: truncation toward zero. *)
Trunc(n, d) == IF n >= 0 THEN n \div d ELSE -((-n) \div d)

-----------------------------------------------------------------------------
(* Velocity, lines 12-33.  "x, y, z = ssp" raises ValueError unless ssp has *)
(* three components; t is not read.                                         *)

(* A non-autonomous variant: dx/dt reads t. *)
VelocityTimeDependent(ssp, t) ==
    IF Len(ssp) # 3 THEN Err("ValueError")
    ELSE LET x == ssp[1]
             y == ssp[2]
             z == ssp[3]
         IN Ok(<<Scale * (-y - z) + t, Scale * x + a * y, Scale * b + z * (x - c)>>)

Velocity(ssp, t) ==
    IF Len(ssp) # 3 THEN Err("ValueError")
    ELSE LET x == ssp[1]
             y == ssp[2]
             z == ssp[3]
             dxdt == Scale * (-y - z)
             dydt == Scale * x + a * y
             dzdt == Scale * b + z * (x - c)
         IN Ok(<<dxdt, dydt, dzdt>>)

(* StabilityMatrix, lines 55-71: a sequence of three rows. *)

(* A variant with rows and columns exchanged. *)
StabilityMatrixTransposed(ssp) ==
    IF Len(ssp) # 3 THEN Err("ValueError")
    ELSE LET x == ssp[1]
             z == ssp[3]
         IN OkMatrix(<< <<0, Scale, z>>,
                        <<-Scale, a, 0>>,
                        <<-Scale, 0, x - c>> >>)

StabilityMatrix(ssp) ==
    IF Len(ssp) # 3 THEN Err("ValueError")
    ELSE LET x == ssp[1]
             z == ssp[3]
         IN OkMatrix(<< <<0, -Scale, -Scale>>,
                        <<Scale, a, 0>>,
                        <<z, 0, x - c>> >>)

-----------------------------------------------------------------------------
(* numpy's reshape and dot, as lines 90, 99, 101, 122 and 132 use them.     *)

(* The Fortran-order variant of reshape. *)
Reshape33ColumnMajor(v) ==
    IF Len(v) # 9 THEN Err("ValueError")
    ELSE OkMatrix(<< <<v[1], v[4], v[7]>>,
                     <<v[2], v[5], v[8]>>,
                     <<v[3], v[6], v[9]>> >>)

(* v.reshape((3, 3)): C (row-major) order; ValueError unless v has 9 items. *)
Reshape33(v) ==
    IF Len(v) # 9 THEN Err("ValueError")
    ELSE OkMatrix(<< <<v[1], v[2], v[3]>>,
                     <<v[4], v[5], v[6]>>,
                     <<v[7], v[8], v[9]>> >>)

(* np.reshape(M, 9): the rows of M one after the other. *)
Reshape9(M) == M[1] \o M[2] \o M[3]

(* np.dot(A, J) of two 3x3 matrices. *)
Dot(A, J) ==
    LET e(i, j) == A[i][1] * J[1][j] + A[i][2] * J[2][j] + A[i][3] * J[3][j]
    IN << <<e(1, 1), e(1, 2), e(1, 3)>>,
          <<e(2, 1), e(2, 2), e(2, 3)>>,
          <<e(3, 1), e(3, 2), e(3, 3)>> >>

(* np.identity(3), line 116. *)
Identity3 == << <<Scale, 0, 0>>, <<0, Scale, 0>>, <<0, 0, Scale>> >>

(* v[lo:] and v[0:hi] of a one-dimensional array: clipped, never an error. *)
SliceFrom(v, lo) == IF lo >= Len(v) THEN <<>> ELSE SubSeq(v, lo + 1, Len(v))
SliceTo(v, hi) == IF hi >= Len(v) THEN v ELSE SubSeq(v, 1, hi)

-----------------------------------------------------------------------------
(* JacobianVelocity, lines 74-103. *)

(* A variant whose stability matrix is taken at a fixed state, not at the   *)
(* state slice of its argument.                                             *)
JacobianVelocityStaleState(sspJacobian, t) ==
    LET ssp == SliceTo(sspJacobian, 3)
        J == Reshape33(SliceFrom(sspJacobian, 3))
    IN IF J.kind # "ok" THEN J
       ELSE LET vel == Velocity(ssp, t)
                A == StabilityMatrix(<<0, 0, 0>>)
            IN IF vel.kind # "ok" THEN vel
               ELSE Ok(vel.val \o Reshape9(Dot(A.val, J.val)))

JacobianVelocity(sspJacobian, t) ==
    LET ssp == SliceTo(sspJacobian, 3)
        J == Reshape33(SliceFrom(sspJacobian, 3))
    IN IF J.kind # "ok" THEN J
       ELSE LET vel == Velocity(ssp, t)
                A == StabilityMatrix(ssp)
                velTangent == Dot(A.val, J.val)
            IN IF vel.kind # "ok" THEN vel
               ELSE IF A.kind # "ok" THEN A
               ELSE Ok(vel.val \o Reshape9(velTangent))

-----------------------------------------------------------------------------
(* scipy.integrate.odeint(func, y0, t), called on lines 50 and 129.  It is  *)
(* library code: what is modelled is its interface.                         *)
(*   - The result has one row per entry of t.  Row 1 is a copy of y0.       *)
(*   - Each further row is the solver's state after advancing from the      *)
(*     previous output time.  An output time equal to the current time      *)
(*     returns the state as it is, without calling func.  Otherwise func is *)
(*     called; the adaptive LSODA step is stood in for by one explicit      *)
(*     Euler step, rounded down to the fixed-point resolution.              *)
(*   - An exception raised by func propagates out of odeint, and so does    *)
(*     the RuntimeError for a func result whose size is not that of y0.     *)
(*   - When the solver cannot advance (here: the state leaves the band      *)
(*     MaxMag, a diverging system) odeint warns and stops: the row of the   *)
(*     failing step holds the state reached so far, the rows after it are   *)
(*     never written (uninitialised memory, junk), and odeint RETURNS.      *)
(* func names the right-hand side: "Velocity" or "JacobianVelocity".        *)
(* tArray is [den, pts]: the times pts[k] / den.  The result is             *)
(* [status, n, last]: status "ok", "failed" or the exception's class, n the *)
(* number of rows, last the last row.                                       *)

Rhs(func, y, t) ==
    IF func = "Velocity" THEN Velocity(y, t) ELSE JacobianVelocity(y, t)

(* A variant that always steps, also when the output time is the current   *)
(* time.                                                                   *)
AdvanceOvershoot(func, y, t0, t1, den) ==
    LET f == Rhs(func, y, t0)
        span == IF t1 = t0 THEN 1 ELSE t1 - t0
    IN IF f.kind # "ok" THEN [status |-> f.kind, y |-> y, row |-> y]
       ELSE IF Len(f.val) # Len(y)
       THEN [status |-> "RuntimeError", y |-> y, row |-> y]
       ELSE LET ynew == [i \in 1..Len(y) |->
                            y[i] + ((f.val[i] * span) \div (Scale * den))] \o <<>>
            IN IF \E i \in 1..Len(y) : Abs(ynew[i]) > MaxMag
               THEN [status |-> "failed", y |-> y, row |-> y]
               ELSE [status |-> "ok", y |-> ynew, row |-> ynew]

Advance(func, y, t0, t1, den) ==
    IF t1 = t0 THEN [status |-> "ok", y |-> y, row |-> y]
    ELSE LET f == Rhs(func, y, t0)
         IN IF f.kind # "ok" THEN [status |-> f.kind, y |-> y, row |-> y]
            ELSE IF Len(f.val) # Len(y)
            THEN [status |-> "RuntimeError", y |-> y, row |-> y]
            ELSE LET ynew == [i \in 1..Len(y) |->
                                 y[i] + ((f.val[i] * (t1 - t0)) \div (Scale * den))]
                                 \o <<>>
                 IN IF \E i \in 1..Len(y) : Abs(ynew[i]) > MaxMag
                    THEN [status |-> "failed", y |-> y, row |-> y]
                    ELSE [status |-> "ok", y |-> ynew, row |-> ynew]

(* The rows lo..hi of the result, from the solver's state s after row      *)
(* lo - 1 (the loop of the library over the output times, split in halves). *)
RECURSIVE Rows(_, _, _, _, _, _)
Rows(func, s, lo, hi, tArray, junk) ==
    IF lo > hi THEN s
    ELSE IF lo = hi
    THEN IF s.status = "ok"
         THEN Advance(func, s.y, tArray.pts[lo - 1], tArray.pts[lo], tArray.den)
         ELSE IF s.status = "failed"
         THEN [s EXCEPT !.row = [i \in 1..Len(s.y) |-> junk]]
         ELSE s
    ELSE LET mid == (lo + hi) \div 2
             left == Rows(func, s, lo, mid, tArray, junk)
         IN IF left.status \notin {"ok", "failed"} THEN left
            ELSE Rows(func, left, mid + 1, hi, tArray, junk)

odeint(func, y0, tArray, junk) ==
    LET n == Len(tArray.pts)
        end == Rows(func, [status |-> "ok", y |-> y0, row |-> y0], 2, n, tArray, junk)
    IN IF n = 0 THEN [status |-> "ok", n |-> 0, last |-> <<>>]
       ELSE [status |-> end.status, n |-> n, last |-> end.row]

(* What a call handed to odeint and what odeint did with it. *)
NoInteg ==
    [called |-> FALSE, y0 |-> <<>>, n |-> 0, tfirst |-> 0, tlast |-> 0, den |-> 1,
     failed |-> FALSE, last |-> <<>>]

Integ(y0, tArray, sol) ==
    [called |-> TRUE, y0 |-> y0, n |-> Len(tArray.pts),
     tfirst |-> IF Len(tArray.pts) = 0 THEN 0 ELSE tArray.pts[1],
     tlast |-> IF Len(tArray.pts) = 0 THEN 0 ELSE tArray.pts[Len(tArray.pts)],
     den |-> tArray.den,
     failed |-> sol.status = "failed",
     last |-> sol.last]

-----------------------------------------------------------------------------
(* Flow, lines 36-52: odeint over [0.0, deltat], last row.  The result is   *)
(* [out, integ].                                                            *)

Flow(ssp0, deltat, junk) ==
    LET tArray == [den |-> TimeDen, pts |-> <<0, deltat>>]
        sspSolution == odeint("Velocity", ssp0, tArray, junk)
    IN [out |-> IF sspSolution.status \in {"ok", "failed"}
                THEN Ok(sspSolution.last)
                ELSE Err(sspSolution.status),
        integ |-> Integ(ssp0, tArray, sspSolution)]

-----------------------------------------------------------------------------
(* np.linspace(0, stop, num), line 127, with num = t * 100 of line 126.     *)
(* stop is t * TimeDen.  isInt says that t is a Python int, so that num is  *)
(* one too; a float num is refused with TypeError by a numpy that wants an  *)
(* index (strict) and truncated toward zero by an older one.  A negative    *)
(* num raises ValueError.  With num >= 2 the samples are evenly spaced and  *)
(* the last one is stop; with num = 1 the only sample is the start.         *)

SamplesPerUnit == 100

linspace(stop, isInt, strict) ==
    LET Nt == Trunc(stop * SamplesPerUnit, TimeDen)
    IN IF ~isInt /\ strict THEN Err("TypeError")
       ELSE IF Nt < 0 THEN Err("ValueError")
       ELSE IF Nt = 0 THEN Ok([den |-> TimeDen, pts |-> <<>>])
       ELSE IF Nt = 1 THEN Ok([den |-> TimeDen, pts |-> <<0>>])
       ELSE Ok([den |-> (Nt - 1) * TimeDen, pts |-> [k \in 1..Nt |-> (k - 1) * stop]])

(* sspJacobian0[0:3] = ssp, line 121: numpy broadcasts a one-element array  *)
(* over the three slots and raises ValueError for any other wrong length.   *)
AssignState(ssp) ==
    IF Len(ssp) = 3 THEN Ok(ssp)
    ELSE IF Len(ssp) = 1 THEN Ok(<<ssp[1], ssp[1], ssp[1]>>)
    ELSE Err("ValueError")

(* Jacobian, lines 106-133.  The result is [out, integ]. *)
Jacobian(ssp, t, isInt, strict, junk) ==
    LET J0 == Identity3
        head == AssignState(ssp)
        tArray == linspace(t, isInt, strict)
    IN IF head.kind # "ok" THEN [out |-> head, integ |-> NoInteg]
       ELSE IF tArray.kind # "ok" THEN [out |-> tArray, integ |-> NoInteg]
       ELSE LET sspJacobian0 == head.val \o Reshape9(J0)
                sspJacobianSolution ==
                    odeint("JacobianVelocity", sspJacobian0, tArray.val, junk)
            IN [out |-> IF sspJacobianSolution.status \notin {"ok", "failed"}
                        THEN Err(sspJacobianSolution.status)
                        ELSE IF sspJacobianSolution.n = 0 THEN Err("IndexError")
                        ELSE Reshape33(SliceFrom(sspJacobianSolution.last, 3)),
                integ |-> Integ(sspJacobian0, tArray.val, sspJacobianSolution)]

-----------------------------------------------------------------------------
(* The inputs of the calls. *)

Vals == -MaxVal..MaxVal

(* A state near x = c, and one from which the flow diverges (z < 0, x > c). *)
SpecialStates == {<<57, 3, 12>>, <<600, 0, -600>>}

WrongLengthStates == {<<1>>, <<1, 0>>, <<1, 0, -1, 1>>}

States3 == {<<x, y, z>> : x \in Vals, y \in Vals, z \in Vals}

StateInputs == States3 \cup SpecialStates \cup WrongLengthStates

IntegInputs ==
    {<<x, 0, z>> : x \in Vals, z \in Vals} \cup SpecialStates \cup WrongLengthStates

Mats ==
    {Reshape33([k \in 1..9 |-> v * k + w * (IF k \in {1, 5, 9} THEN Scale ELSE 0)]).val :
        v \in Vals, w \in Vals}

AugInputs ==
    {s \o Reshape9(M) : s \in {<<x, 1, 2 * x + 3>> : x \in Vals} \cup {<<57, 3, 12>>},
                        M \in Mats}
    \cup {<<1, 0, -1>>,
          <<1, 0, -1>> \o SliceTo(Reshape9(Identity3), 8),
          <<1, 0, -1>> \o Reshape9(Identity3) \o <<1>>}

(* The states Jacobian is called on with an integer time (100 samples per   *)
(* unit of time): a regular one, the diverging one, and two wrong lengths.  *)
IntJacInputs == SpecialStates \cup {<<1>>, <<1, 0>>}

VelTimes == {0, TimeDen}
FlowTimes == {k * (TimeDen \div 2) : k \in -MaxDt..MaxDt}
JacFloatTimes == -MaxT..MaxT
JacIntTimes == {k * TimeDen : k \in -MaxIntT..MaxIntT}
JunkVals == 0..MaxJunk

-----------------------------------------------------------------------------------------------------------------------------------------------------
(* The caller: one action per entry point, the whole call in one step.  The *)
(* calls are synchronous: the caller makes one, looks at what came back,    *)
(* drops it (or keeps it to compare with a later call) and makes the next.  *)

NoCall == [op |-> "none", vec |-> <<>>, t |-> 0, isInt |-> FALSE]
NoOutcome == [kind |-> "none", ndim |-> 0, val |-> <<>>]

Init ==
    /\ a = 2
    /\ b = 2
    /\ c = 57
    /\ strictIndex \in BOOLEAN
    /\ pc = "idle"
    /\ call = NoCall
    /\ buf = <<>>
    /\ outcome = NoOutcome
    /\ integ = NoInteg
    /\ kept = [call |-> NoCall, outcome |-> NoOutcome]

CallVelocity ==
    /\ pc = "idle"
    /\ \E ssp \in StateInputs, t \in VelTimes :
        /\ call' = [op |-> "Velocity", vec |-> ssp, t |-> t, isInt |-> FALSE]
        /\ outcome' = Velocity(ssp, t)
        /\ buf' = ssp
        /\ integ' = NoInteg
    /\ pc' = "returned"
    /\ UNCHANGED <<a, b, c, strictIndex, kept>>

CallStabilityMatrix ==
    /\ pc = "idle"
    /\ \E ssp \in StateInputs :
        /\ call' = [op |-> "StabilityMatrix", vec |-> ssp, t |-> 0, isInt |-> FALSE]
        /\ outcome' = StabilityMatrix(ssp)
        /\ buf' = ssp
        /\ integ' = NoInteg
    /\ pc' = "returned"
    /\ UNCHANGED <<a, b, c, strictIndex, kept>>

CallJacobianVelocity ==
    /\ pc = "idle"
    /\ \E sspJacobian \in AugInputs, t \in VelTimes :
        /\ call' = [op |-> "JacobianVelocity", vec |-> sspJacobian, t |-> t,
                    isInt |-> FALSE]
        /\ outcome' = JacobianVelocity(sspJacobian, t)
        /\ buf' = sspJacobian
        /\ integ' = NoInteg
    /\ pc' = "returned"
    /\ UNCHANGED <<a, b, c, strictIndex, kept>>

CallFlow ==
    /\ pc = "idle"
    /\ \E ssp0 \in IntegInputs, deltat \in FlowTimes, junk \in JunkVals :
        LET r == Flow(ssp0, deltat, junk)
        IN /\ call' = [op |-> "Flow", vec |-> ssp0, t |-> deltat, isInt |-> FALSE]
           /\ outcome' = r.out
           /\ buf' = ssp0
           /\ integ' = r.integ
    /\ pc' = "returned"
    /\ UNCHANGED <<a, b, c, strictIndex, kept>>

JacobianCall(ssp, t, isInt, junk) ==
    LET r == Jacobian(ssp, t, isInt, strictIndex, junk)
    IN /\ call' = [op |-> "Jacobian", vec |-> ssp, t |-> t, isInt |-> isInt]
       /\ outcome' = r.out
       /\ buf' = ssp
       /\ integ' = r.integ

(* t is a Python int (whole units of time) or a float. *)
CallJacobian ==
    /\ pc = "idle"
    /\ \/ \E ssp \in IntJacInputs, t \in JacIntTimes, junk \in JunkVals :
              JacobianCall(ssp, t, TRUE, junk)
       \/ \E ssp \in IntegInputs, t \in JacFloatTimes, junk \in JunkVals :
              JacobianCall(ssp, t, FALSE, junk)
    /\ pc' = "returned"
    /\ UNCHANGED <<a, b, c, strictIndex, kept>>

(* The caller is done with the result. *)
Discard ==
    /\ pc = "returned"
    /\ pc' = "idle"
    /\ call' = NoCall
    /\ buf' = <<>>
    /\ outcome' = NoOutcome
    /\ integ' = NoInteg
    /\ UNCHANGED <<a, b, c, strictIndex, kept>>

(* The caller keeps the call and what it gave, to compare a later call with. *)
Keep ==
    /\ pc = "returned"
    /\ pc' = "idle"
    /\ kept' = [call |-> call, outcome |-> outcome]
    /\ call' = NoCall
    /\ buf' = <<>>
    /\ outcome' = NoOutcome
    /\ integ' = NoInteg
    /\ UNCHANGED <<a, b, c, strictIndex>>

Next ==
    \/ CallVelocity
    \/ CallStabilityMatrix
    \/ CallJacobianVelocity
    \/ CallJacobian
    \/ CallFlow
    \/ Discard

Spec == Init /\ [][Next]_vars

NextKeep == Next \/ Keep

SpecKeep == Init /\ [][NextKeep]_vars

-----------------------------------------------------------------------------
(* Properties.  x = 0.1 is the integer 1, a = b = 0.2 is 2, c = 5.7 is 57;  *)
(* a velocity component v is the integer 100 * v; t = 1 is TimeDen.         *)

Returned(op) == pc = "returned" /\ call.op = op

(* The exceptions that reject an argument. *)
InvalidArgument == {"ValueError", "TypeError"}

(* C1: Velocity((x, y, z), t) is (-y - z, x + a*y, b + z*(x - c)) with       *)
(* a = 0.2, b = 0.2, c = 5.7, whatever t is.                                 *)
C1_VelocityClosedForm ==
    Returned("Velocity") /\ Len(call.vec) = 3 =>
        LET x == call.vec[1]
            y == call.vec[2]
            z == call.vec[3]
        IN /\ outcome.kind = "ok"
           /\ outcome.val = <<10 * (-y - z), 10 * x + 2 * y, 20 + z * (x - 57)>>

C1_Witness ==
    /\ Returned("Velocity")
    /\ call.vec = <<57, 3, 12>>
    /\ call.t = TimeDen
    /\ outcome.kind = "ok"

(* C2: StabilityMatrix(s) is [[0, -1, -1], [1, a, 0], [z, 0, x - c]], and    *)
(* its entry (i, j) times 2h is Velocity(s + h*e_j)[i] - Velocity(s -        *)
(* h*e_j)[i] for every step h # 0.                                           *)
Shift(s, j, h) == [s EXCEPT ![j] = @ + h]

C2_StabilityMatrixIsDerivative ==
    Returned("StabilityMatrix") /\ Len(call.vec) = 3 =>
        LET s == call.vec
        IN /\ outcome.kind = "ok"
           /\ outcome.val = << <<0, -10, -10>>, <<10, 2, 0>>, <<s[3], 0, s[1] - 57>> >>
           /\ \A i \in 1..3, j \in 1..3, h \in (-MaxH..MaxH) \ {0} :
                  2 * h * outcome.val[i][j] =
                      Velocity(Shift(s, j, h), 0).val[i] - Velocity(Shift(s, j, -h), 0).val[i]

C2_Witness ==
    /\ Returned("StabilityMatrix")
    /\ call.vec = <<57, 3, 12>>
    /\ outcome.kind = "ok"
    /\ outcome.val[3][1] = 12

(* C3: JacobianVelocity(v, t) of a 12-component v has 12 components; the     *)
(* first 3 are Velocity(v[0:3], t), a function of v[0:3] alone; component    *)
(* 3 + 3i + j is entry (i, j) of StabilityMatrix(v[0:3]) . J, J[k][j] being  *)
(* component 3 + 3k + j of v.                                                *)
C3_AugmentedVelocity ==
    Returned("JacobianVelocity") /\ Len(call.vec) = 12 =>
        LET v == call.vec
            s == <<v[1], v[2], v[3]>>
            A == StabilityMatrix(s).val
        IN /\ outcome.kind = "ok"
           /\ Len(outcome.val) = 12
           /\ <<outcome.val[1], outcome.val[2], outcome.val[3]>> = Velocity(s, call.t).val
           /\ <<outcome.val[1], outcome.val[2], outcome.val[3]>> =
                  <<10 * (-s[2] - s[3]), 10 * s[1] + 2 * s[2], 20 + s[3] * (s[1] - 57)>>
           /\ \A i \in 1..3, j \in 1..3 :
                  outcome.val[3 + 3 * (i - 1) + j] =
                      A[i][1] * v[3 + j] + A[i][2] * v[6 + j] + A[i][3] * v[9 + j]

C3_Witness ==
    /\ Returned("JacobianVelocity")
    /\ Len(call.vec) = 12
    /\ call.vec[1] = 57 /\ call.vec[3] = 12
    /\ call.vec[5] # call.vec[7]
    /\ outcome.kind = "ok"

(* C4: Jacobian(ssp, t) with t <= 0 fails with an invalid-argument error,    *)
(* returns no matrix, and runs no integration.                               *)
C4_NonPositiveTimeRejected ==
    Returned("Jacobian") /\ Len(call.vec) = 3 /\ call.t <= 0 =>
        /\ outcome.kind \in InvalidArgument
        /\ ~integ.called

(* C5: Flow(ssp0, 0) is ssp0: the last sample of the integration over        *)
(* [0, 0] is the initial condition.                                          *)
C5_FlowZeroIsIdentity ==
    Returned("Flow") /\ Len(call.vec) = 3 /\ call.t = 0 =>
        /\ outcome.kind = "ok"
        /\ outcome.val = call.vec
        /\ integ.called /\ integ.n = 2 /\ integ.tfirst = 0 /\ integ.tlast = 0
        /\ integ.y0 = call.vec
        /\ integ.last = call.vec

C5_Witness ==
    /\ Returned("Flow")
    /\ call.vec = <<57, 3, 12>>
    /\ call.t = 0
    /\ outcome.kind = "ok"

(* C6: for t > 0 the time grid Jacobian(ssp, t) hands to the integrator      *)
(* starts at 0, has at least 2 points, and ends exactly at t.                *)
C6_GridEndsAtT ==
    Returned("Jacobian") /\ Len(call.vec) = 3 /\ call.t > 0 /\ integ.called =>
        /\ integ.n >= 2
        /\ integ.tfirst = 0
        /\ integ.tlast * TimeDen = call.t * integ.den

(* C7: when the integrator cannot meet its tolerances during Flow or         *)
(* Jacobian, the call fails with an error; it returns nothing taken from a   *)
(* truncated solution.                                                       *)
C7_FailureIsSurfaced ==
    pc = "returned" /\ call.op \in {"Flow", "Jacobian"} /\ integ.failed =>
        outcome.kind # "ok"

(* C8: a vector of the wrong length is rejected by every entry point: a      *)
(* state of length other than 3 by Velocity, StabilityMatrix, Flow and       *)
(* Jacobian, an augmented state of length other than 12 by JacobianVelocity; *)
(* the call ends with an error (any exception is counted) and returns no     *)
(* result.                                                                   *)
C8_WrongLengthRejected ==
    /\ pc = "returned" /\ call.op \in {"Velocity", "StabilityMatrix", "Flow", "Jacobian"}
           /\ Len(call.vec) # 3
       => outcome.kind # "ok"
    /\ Returned("JacobianVelocity") /\ Len(call.vec) # 12
       => outcome.kind # "ok"

(* C9: every call is a pure function: the constants a, b, c and the caller's *)
(* input vector are as before the call, and a call with the arguments of an  *)
(* earlier call returns what the earlier call returned, whatever was called  *)
(* in between.                                                               *)
C9_CallsArePure ==
    /\ a = 2 /\ b = 2 /\ c = 57
    /\ pc = "returned" => buf = call.vec
    /\ pc = "returned" /\ kept.call = call => kept.outcome = outcome

(* C10: Jacobian(ssp, t) integrates from ssp followed by the rows of the     *)
(* identity, and entry (i, j) of what it returns is component 3 + 3i + j of  *)
(* the last sample, the component JacobianVelocity propagates as entry       *)
(* (i, j); packing a 3x3 matrix and unpacking it gives the matrix back.      *)
C10_PackingIsRowMajor ==
    /\ Returned("Jacobian") /\ Len(call.vec) = 3 /\ integ.called =>
           /\ integ.y0 = call.vec \o <<10, 0, 0, 0, 10, 0, 0, 0, 10>>
           /\ outcome.kind = "ok" =>
                  \A i \in 1..3, j \in 1..3 :
                      outcome.val[i][j] = integ.last[3 + 3 * (i - 1) + j]
    /\ Returned("JacobianVelocity") /\ Len(call.vec) = 12 =>
           /\ Reshape9(Reshape33(SliceFrom(call.vec, 3)).val) = SliceFrom(call.vec, 3)
           /\ Reshape33(SliceFrom(outcome.val, 3)).val =
                  Dot(StabilityMatrix(SliceTo(call.vec, 3)).val,
                      << <<call.vec[4], call.vec[5], call.vec[6]>>,
                         <<call.vec[7], call.vec[8], call.vec[9]>>,
                         <<call.vec[10], call.vec[11], call.vec[12]>> >>)

C10_Witness ==
    /\ Returned("Jacobian")
    /\ Len(call.vec) = 3
    /\ outcome.kind = "ok"
    /\ integ.n >= 2
    /\ ~integ.failed
    /\ outcome.val[1][2] # outcome.val[2][1]

====
